---- MODULE Spec2Model ----
(***************************************************************************)
(* A model of causaltreat.py: the stratified main/auxiliary split           *)
(* (partition), the two-stage proxy fit (ml_proxy), the quantile grouping   *)
(* (quantile_grid), the two weighted-regression aggregators (blp, gates)    *)
(* and the orchestrator (combine).                                          *)
(*                                                                          *)
(* Arithmetic is exact.  Real numbers are carried as integers over a        *)
(* stated denominator: prob_m is prob_m/ProbDen, a propensity is p/PropDen, *)
(* a bin edge is e/(100*q), a regression weight is a pair <<num, den>>.     *)
(* Python's 0-based row numbers and bin numbers are kept for bin indices;   *)
(* vectors are sequences indexed from 1.                                    *)
(***************************************************************************)
EXTENDS Integers, Sequences, FiniteSets, TLC

VARIABLES pc, args, sample, fitted, pred_ctrl, pred_treat, log, solver, result, err

vars == <<pc, args, sample, fitted, pred_ctrl, pred_treat, log, solver, result, err>>

(* ------------------------------ bounds --------------------------------- *)

\* longest data set explored
MaxN == 4
\* prob_m ranges over the multiples of 1/ProbDen from -1/ProbDen to 2
ProbDen == 2
\* largest number of quantile groups explored
MaxQ == 3
\* largest score handed to quantile_grid directly
MaxScore == 3

\* propensities are multiples of 1/PropDen strictly inside (0,1)
PropDen == 4

(* ------------------------------ vectors -------------------------------- *)

Range(v) == {v[i] : i \in DOMAIN v}

\* The row numbers a boolean mask selects, in increasing order: numpy's
\* v[mask] keeps the original order of the rows.
MaskRows(mask) ==
    LET S == {i \in DOMAIN mask : mask[i]}
    IN  [k \in 1..Cardinality(S) |->
            CHOOSE i \in S : Cardinality({j \in S : j <= i}) = k]

\* v[mask]
Take(v, mask) ==
    LET rows == MaskRows(mask)
    IN  [k \in DOMAIN rows |-> v[rows[k]]]

RECURSIVE SumSeq(_)
SumSeq(v) == IF v = <<>> THEN 0 ELSE v[1] + SumSeq(Tail(v))

\* np.sort: the k-th smallest value of x
Sorted(x) ==
    [k \in DOMAIN x |->
        CHOOSE v \in Range(x) :
            /\ Cardinality({i \in DOMAIN x : x[i] < v}) < k
            /\ k <= Cardinality({i \in DOMAIN x : x[i] <= v})]

(* ------------------------------ partition ------------------------------ *)

\* np.where(d == 1)[0] and np.where(d == 0)[0]
RowidTreat(d) == {i \in DOMAIN d : d[i] = 1}
RowidCtrl(d) == {i \in DOMAIN d : d[i] = 0}

\* a plausible slip: rounding the main-sample size up instead of down
MainSizeCeil(prob_m, len) == -((-(prob_m * len)) \div ProbDen)

\* np.floor(prob_m * len(rowid)).astype(int), prob_m being prob_m/ProbDen
MainSize(prob_m, len) == (prob_m * len) \div ProbDen

\* np.random.choice(a, size, replace=False) raises ValueError for a size
\* below 0 or above len(a); a size of 0 is accepted for an empty a.
ChoiceRaises(a, size) == size < 0 \/ size > Cardinality(a)

\* the subsets np.random.choice(a, size, replace=False) can return
Choice(a, size) == {S \in SUBSET a : Cardinality(S) = size}

\* sample = np.repeat("a", len(d)); sample[rowid_main] = "m"
Labels(d, rowid_main) == [i \in DOMAIN d |-> IF i \in rowid_main THEN "m" ELSE "a"]

(* ------------------------------ ml_proxy ------------------------------- *)

\* What the external model can have learned after fit: a map from a row's
\* feature to a prediction.  The learner is not part of the program, so fit
\* picks any of these.
Hypotheses == {"zero", "one", "parity"}

\* model.predict on one row
PredictRow(h, xi) == CASE h = "zero" -> 0 [] h = "one" -> 1 [] OTHER -> xi % 2

\* model.predict(x): one value per row of x
Predict(h, x) == [i \in DOMAIN x |-> PredictRow(h, x[i])]

\* a plausible slip: training on the main rows
IdCtrlMain(smp, d) == [i \in DOMAIN d |-> smp[i] = "m" /\ d[i] = 0]

\* id_ctrl_a = (sample == "a") & (d == 0)
IdCtrlA(smp, d) == [i \in DOMAIN d |-> smp[i] = "a" /\ d[i] = 0]

\* id_treat_a = (sample == "a") & (d == 1)
IdTreatA(smp, d) == [i \in DOMAIN d |-> smp[i] = "a" /\ d[i] = 1]

\* y[id_treat_a] - pred_ctrl[id_treat_a]
TreatTarget(y, pc_, mask) ==
    LET ys == Take(y, mask)
        ps == Take(pc_, mask)
    IN  [k \in DOMAIN ys |-> ys[k] - ps[k]]

(* ---------------------------- quantile_grid ---------------------------- *)

\* np.linspace(0, 100, num=q, endpoint=False): the j-th probability is
\* 100*(j-1)/q; the numerators over q are kept.
BinPct(q) == [j \in 1..q |-> 100 * (j - 1)]

\* a plausible slip: the percentile taken at the lower neighbour, without
\* interpolation
PercentileLower(x, pct, q) ==
    LET n == Len(x)
        den == 100 * q
        lo == ((n - 1) * pct) \div den
    IN  Sorted(x)[lo + 1] * den

\* np.percentile(a=x, q=pct) for one probability pct/q, by numpy's default
\* linear interpolation: the virtual index is (n-1)*(pct/q)/100, the value
\* is s[lo] + frac*(s[lo+1] - s[lo]).  The result is scaled by 100*q.
Percentile(x, pct, q) ==
    LET n == Len(x)
        den == 100 * q
        num == (n - 1) * pct
        lo == num \div den
        r == num % den
        s == Sorted(x)
    IN  IF r = 0 THEN s[lo + 1] * den
                 ELSE s[lo + 1] * den + r * (s[lo + 2] - s[lo + 1])

\* bin_edges = np.percentile(a=x, q=bin_pct), scaled by 100*q
BinEdges(x, q) == [j \in 1..q |-> Percentile(x, BinPct(q)[j], q)]

\* extended reals: a finite value, or np.Inf
Fin(v) == <<0, v>>
Inf == <<1, 0>>
ExtLe(a, b) == a[1] < b[1] \/ (a[1] = b[1] /\ (a[1] = 1 \/ a[2] <= b[2]))

\* a plausible slip: np.digitize(..., right=True), bins[i-1] < x <= bins[i]
DigitizeRight(v, bins) == Cardinality({j \in DOMAIN bins : ~ExtLe(v, bins[j])})

\* np.digitize(x, bins) for increasing bins: the i with
\* bins[i-1] <= x < bins[i], which is the number of bins that are <= x
Digitize(v, bins) == Cardinality({j \in DOMAIN bins : ExtLe(bins[j], v)})

\* np.append(bin_edges, np.Inf)
BinsWithInf(edges) == Append([j \in DOMAIN edges |-> Fin(edges[j])], Inf)

\* quantile_grid(x, q); x is compared with the edges on their scale 100*q
QuantileGrid(x, q) ==
    LET bin_pct == BinPct(q)
        bin_edges == BinEdges(x, q)
        bins == BinsWithInf(bin_edges)
    IN  [bin_indices |-> [i \in DOMAIN x |-> Digitize(Fin(x[i] * 100 * q), bins) - 1],
         bin_edges |-> bin_edges,
         bin_pct |-> bin_pct]

(* --------------------------- weighted regression ------------------------ *)

\* a matrix: its shape and its cells
Matrix(nrow, ncol, cell) == [rows |-> nrow, cols |-> ncol, at |-> cell]

\* w_reg = (prop * (1 - prop)) ** (-1), as <<numerator, denominator>>
WReg(prop) == [i \in DOMAIN prop |-> <<PropDen * PropDen, prop[i] * (PropDen - prop[i])>>]

\* the keyword arguments the program passes to the solver besides endog
\* and exog: WLS(endog=y_reg, exog=x_reg, w=w_reg)
SolverKwargs(w_reg) == [w |-> w_reg]

\* statsmodels' WLS(endog, exog, weights=1.0, missing='none', hasconst=None,
\* **kwargs): the weights the fit applies are the `weights` argument, 1.0
\* for every row when it is not given; any other keyword lands in **kwargs.
\* params has one coefficient per column of exog; coefficient j is written j.
WLS(endog, exog, kwargs) ==
    [endog |-> endog,
     exog |-> exog,
     weights |-> IF "weights" \in DOMAIN kwargs
                 THEN kwargs.weights
                 ELSE [i \in DOMAIN endog |-> <<1, 1>>],
     params |-> [j \in 1..exog.cols |-> j]]

(* --------------------------------- blp --------------------------------- *)

\* x_reg of blp: const., b_hat, d - prop, (d - prop) * (s_hat - mean(s_hat)).
\* Column 3 is scaled by PropDen, column 4 by PropDen * n.
BlpXReg(y, d, prop, b_hat, s_hat) ==
    LET n == Len(y)
    IN  Matrix(n, 4,
            [i \in 1..n |->
                <<1,
                  b_hat[i],
                  d[i] * PropDen - prop[i],
                  (d[i] * PropDen - prop[i]) * (n * s_hat[i] - SumSeq(s_hat))>>])

\* blp(y, d, prop, b_hat, s_hat): labels = const., b0, ate, het
Blp(y, d, prop, b_hat, s_hat) ==
    LET wls == WLS(y, BlpXReg(y, d, prop, b_hat, s_hat), SolverKwargs(WReg(prop)))
    IN  [wls |-> wls,
         w_reg |-> WReg(prop),
         out |-> [ate |-> wls.params[3], het |-> wls.params[4]]]

(* -------------------------------- gates -------------------------------- *)

\* s_hat + 1e-16 * np.random.uniform(size=len(s_hat)): the jitter is below
\* the gap between two different scores, so scores are doubled and each
\* row's jitter is 0 (absorbed by rounding) or 1.
JitterScale == 2
Jittered(s_hat, jitter) == [i \in DOMAIN s_hat |-> JitterScale * s_hat[i] + jitter[i]]

\* a plausible slip: marking the bin above the row's bin as well
OneHotTwo(n, ncol, bin_indices) ==
    Matrix(n, ncol,
        [i \in 1..n |-> [j \in 1..ncol |->
            IF j - 1 = bin_indices[i] \/ j - 2 = bin_indices[i] THEN 1 ELSE 0]])

\* s_onehot = np.zeros((len(s_hat), len(bin_edges)));
\* s_onehot[np.arange(0, len(s_hat)), bin_indices] = 1
OneHot(n, ncol, bin_indices) ==
    Matrix(n, ncol,
        [i \in 1..n |-> [j \in 1..ncol |-> IF j - 1 = bin_indices[i] THEN 1 ELSE 0]])

\* np.column_stack((s_onehot, s_onehot * np.reshape(d - prop, (-1, 1)))):
\* the second block is scaled by PropDen
GatesXReg(s_onehot, d, prop) ==
    Matrix(s_onehot.rows, 2 * s_onehot.cols,
        [i \in 1..s_onehot.rows |-> [j \in 1..(2 * s_onehot.cols) |->
            IF j <= s_onehot.cols
            THEN s_onehot.at[i][j]
            ELSE s_onehot.at[i][j - s_onehot.cols] * (d[i] * PropDen - prop[i])]])

\* np.sum(s_onehot, axis=0)
ColumnSums(m) == [j \in 1..m.cols |-> SumSeq([i \in 1..m.rows |-> m.at[i][j]])]

\* gates(y, d, prop, s_hat, q) for one outcome of the random jitter
Gates(y, d, prop, s_hat, q, jitter) ==
    LET grid == QuantileGrid(Jittered(s_hat, jitter), q)
        s_onehot == OneHot(Len(s_hat), Len(grid.bin_edges), grid.bin_indices)
        x_reg == GatesXReg(s_onehot, d, prop)
        nbase == Len(grid.bin_pct)
        wls == WLS(y, x_reg, SolverKwargs(WReg(prop)))
    IN  [wls |-> wls,
         w_reg |-> WReg(prop),
         s_onehot |-> s_onehot,
         grid |-> grid,
         out |-> [coef_baseline |-> SubSeq(wls.params, 1, nbase),
                  coef_treatment |-> SubSeq(wls.params, nbase + 1, Len(wls.params)),
                  bin_values |-> grid.bin_edges,
                  bin_count |-> ColumnSums(s_onehot)]]

(* ------------------------------- combine ------------------------------- *)

\* the inputs explored
Vectors(n, S) == [1..n -> S]
\* the feature matrix x: one column, which tells the rows apart
Features(n) == [i \in 1..n |-> i]
\* outcome vectors
YVecs(n) == {[i \in 1..n |-> i % 2], [i \in 1..n |-> i]}
\* propensity vectors, numerators over PropDen: a constant and a varying one
PropVecs(n) == {[i \in 1..n |-> 1], [i \in 1..n |-> 1 + (i % (PropDen - 1))]}
\* prob_m, numerators over ProbDen: from below 0 to 2
ProbMs == (-1)..(2 * ProbDen)
SecondStages == {"blp", "gates", "ols"}
\* second_stage with q: q is read by gates alone, so it varies there only
StageArgs == {c \in SecondStages \X (1..MaxQ) : c[1] = "gates" \/ c[2] = 1}
\* the proxy values explored when an aggregator is called directly
SHatVals == {0, 1}
JitterVals == {0, 1}
\* the jitter draws explored inside combine: none taking effect, and every
\* other row's taking effect
CombineJitters(n) == {[i \in 1..n |-> 0], [i \in 1..n |-> i % 2]}

NoCall == [op |-> "none"]
NoFit == [h |-> "unfitted"]

\* a plausible slip: restricting the second stage to the auxiliary rows
MaskAux(smp) == [i \in DOMAIN smp |-> smp[i] = "a"]

\* sample == "m"
MaskMain(smp) == [i \in DOMAIN smp |-> smp[i] = "m"]

\* the branch the if / elif / else on second_stage takes
Stage(second_stage) ==
    IF second_stage = "blp" THEN "blp"
    ELSE IF second_stage = "gates" THEN "gates"
    ELSE "raise"

InitCombine ==
    /\ pc = "combine"
    /\ \E n \in 1..MaxN :
         \E d \in Vectors(n, {0, 1}), y \in YVecs(n), prop \in PropVecs(n),
            prob_m \in ProbMs, c \in StageArgs :
            args = [x |-> Features(n), y |-> y, d |-> d, prop |-> prop,
                    second_stage |-> c[1], q |-> c[2], prob_m |-> prob_m]
    /\ sample = <<>>
    /\ fitted = NoFit
    /\ pred_ctrl = <<>>
    /\ pred_treat = <<>>
    /\ log = <<>>
    /\ solver = NoCall
    /\ result = NoCall
    /\ err = "none"

\* combine, step 1: sample = partition(d, prob_m=prob_m), where one of the
\* two np.random.choice calls raises
PartitionRaises ==
    /\ pc = "combine"
    /\ LET treat == RowidTreat(args.d)
           ctrl == RowidCtrl(args.d)
       IN  \/ ChoiceRaises(treat, MainSize(args.prob_m, Cardinality(treat)))
           \/ ChoiceRaises(ctrl, MainSize(args.prob_m, Cardinality(ctrl)))
    /\ pc' = "raised"
    /\ err' = "ValueError: np.random.choice"
    /\ log' = Append(log, [op |-> "partition"])
    /\ UNCHANGED <<args, sample, fitted, pred_ctrl, pred_treat, solver, result>>

\* combine, step 1: sample = partition(d, prob_m=prob_m) returning labels
PartitionReturns ==
    /\ pc = "combine"
    /\ LET treat == RowidTreat(args.d)
           ctrl == RowidCtrl(args.d)
           size_treat == MainSize(args.prob_m, Cardinality(treat))
           size_ctrl == MainSize(args.prob_m, Cardinality(ctrl))
       IN  /\ ~ChoiceRaises(treat, size_treat)
           /\ ~ChoiceRaises(ctrl, size_ctrl)
           /\ \E rowid_treat_main \in Choice(treat, size_treat),
                 rowid_ctrl_main \in Choice(ctrl, size_ctrl) :
                 sample' = Labels(args.d, rowid_treat_main \cup rowid_ctrl_main)
    /\ pc' = "partitioned"
    /\ log' = Append(log, [op |-> "partition"])
    /\ UNCHANGED <<args, fitted, pred_ctrl, pred_treat, solver, result, err>>

\* model.fit(features, target): the external learner either learns some
\* hypothesis or, handed no rows at all, may refuse
ModelFit(mask, target, next) ==
    /\ log' = Append(log, [op |-> "fit", rows |-> MaskRows(mask),
                           features |-> Take(args.x, mask), target |-> target])
    /\ \/ /\ \E h \in Hypotheses : fitted' = [h |-> h]
          /\ pc' = next
          /\ err' = err
       \/ /\ MaskRows(mask) = <<>>
          /\ fitted' = fitted
          /\ pc' = "raised"
          /\ err' = "model.fit: no training rows"

\* ml_proxy: model.fit(x[id_ctrl_a,], y[id_ctrl_a])
FitCtrl ==
    /\ pc = "partitioned"
    /\ LET id_ctrl_a == IdCtrlA(sample, args.d)
       IN  ModelFit(id_ctrl_a, Take(args.y, id_ctrl_a), "fit_ctrl")
    /\ UNCHANGED <<args, sample, pred_ctrl, pred_treat, solver, result>>

\* ml_proxy: pred_ctrl = model.predict(x)
PredictCtrl ==
    /\ pc = "fit_ctrl"
    /\ pred_ctrl' = Predict(fitted.h, args.x)
    /\ log' = Append(log, [op |-> "predict", features |-> args.x])
    /\ pc' = "pred_ctrl"
    /\ UNCHANGED <<args, sample, fitted, pred_treat, solver, result, err>>

\* ml_proxy: model.fit(x[id_treat_a,], y[id_treat_a] - pred_ctrl[id_treat_a])
FitTreat ==
    /\ pc = "pred_ctrl"
    /\ LET id_treat_a == IdTreatA(sample, args.d)
       IN  ModelFit(id_treat_a, TreatTarget(args.y, pred_ctrl, id_treat_a), "fit_treat")
    /\ UNCHANGED <<args, sample, pred_ctrl, pred_treat, solver, result>>

\* ml_proxy: pred_treat = model.predict(x); b_hat, s_hat are returned
PredictTreat ==
    /\ pc = "fit_treat"
    /\ pred_treat' = Predict(fitted.h, args.x)
    /\ log' = Append(log, [op |-> "predict", features |-> args.x])
    /\ pc' = "proxied"
    /\ UNCHANGED <<args, sample, fitted, pred_ctrl, solver, result, err>>

\* the outcome of an aggregator: with no main row at all the mean, the
\* percentiles and the fit are undefined, and the libraries either raise
\* or hand back not-a-number results
Aggregated(call, agg) ==
    /\ log' = Append(log, call)
    /\ IF Len(call.y) = 0
       THEN /\ solver' = solver
            /\ \/ pc' = "raised" /\ err' = "aggregator: no main rows" /\ result' = result
               \/ pc' = "returned" /\ err' = err /\ result' = [op |-> "nan"]
       ELSE /\ solver' = agg.wls
            /\ result' = agg.out
            /\ pc' = "returned"
            /\ err' = err

\* combine, step 3, second_stage == "blp"
CombineBlp ==
    /\ pc = "proxied"
    /\ Stage(args.second_stage) = "blp"
    /\ LET m == MaskMain(sample)
           call == [op |-> "blp", y |-> Take(args.y, m), d |-> Take(args.d, m),
                    prop |-> Take(args.prop, m), b_hat |-> Take(pred_ctrl, m),
                    s_hat |-> Take(pred_treat, m)]
       IN  Aggregated(call, Blp(call.y, call.d, call.prop, call.b_hat, call.s_hat))
    /\ UNCHANGED <<args, sample, fitted, pred_ctrl, pred_treat>>

\* combine, step 3, second_stage == "gates"
CombineGates ==
    /\ pc = "proxied"
    /\ Stage(args.second_stage) = "gates"
    /\ LET m == MaskMain(sample)
           call == [op |-> "gates", y |-> Take(args.y, m), d |-> Take(args.d, m),
                    prop |-> Take(args.prop, m), s_hat |-> Take(pred_treat, m),
                    q |-> args.q]
       IN  \E jitter \in CombineJitters(Len(call.y)) :
              Aggregated(call, Gates(call.y, call.d, call.prop, call.s_hat, call.q, jitter))
    /\ UNCHANGED <<args, sample, fitted, pred_ctrl, pred_treat>>

\* combine, step 3, else: raise ValueError
CombineRaises ==
    /\ pc = "proxied"
    /\ Stage(args.second_stage) = "raise"
    /\ pc' = "raised"
    /\ err' = "ValueError: second_stage"
    /\ UNCHANGED <<args, sample, fitted, pred_ctrl, pred_treat, log, solver, result>>

Next ==
    \/ PartitionRaises
    \/ PartitionReturns
    \/ FitCtrl
    \/ PredictCtrl
    \/ FitTreat
    \/ PredictTreat
    \/ CombineBlp
    \/ CombineGates
    \/ CombineRaises

Spec == InitCombine /\ [][Next]_vars

(* ------------------------ quantile_grid called alone -------------------- *)

InitGrid ==
    /\ pc = "quantile_grid"
    /\ \E n \in 1..MaxN :
         \E x \in Vectors(n, 0..MaxScore), q \in 1..MaxQ : args = [x |-> x, q |-> q]
    /\ sample = <<>>
    /\ fitted = NoFit
    /\ pred_ctrl = <<>>
    /\ pred_treat = <<>>
    /\ log = <<>>
    /\ solver = NoCall
    /\ result = NoCall
    /\ err = "none"

\* quantile_grid(x, q)
GridCall ==
    /\ pc = "quantile_grid"
    /\ result' = QuantileGrid(args.x, args.q)
    /\ pc' = "grid_returned"
    /\ UNCHANGED <<args, sample, fitted, pred_ctrl, pred_treat, log, solver, err>>

SpecGrid == InitGrid /\ [][GridCall]_vars

(* ------------------------ the aggregators called alone ------------------ *)

InitAgg ==
    /\ pc = "aggregate"
    /\ \E n \in 1..MaxN :
         \E d \in Vectors(n, {0, 1}), prop \in PropVecs(n), s_hat \in Vectors(n, SHatVals),
            q \in 1..MaxQ :
            args = [y |-> Features(n), d |-> d, prop |-> prop,
                    b_hat |-> [i \in 1..n |-> i % 2], s_hat |-> s_hat, q |-> q]
    /\ sample = <<>>
    /\ fitted = NoFit
    /\ pred_ctrl = <<>>
    /\ pred_treat = <<>>
    /\ log = <<>>
    /\ solver = NoCall
    /\ result = NoCall
    /\ err = "none"

\* blp(y, d, prop, b_hat, s_hat)
BlpCall ==
    /\ pc = "aggregate"
    /\ LET agg == Blp(args.y, args.d, args.prop, args.b_hat, args.s_hat)
       IN  /\ solver' = agg.wls
           /\ result' = agg.out
    /\ pc' = "blp_returned"
    /\ UNCHANGED <<args, sample, fitted, pred_ctrl, pred_treat, log, err>>

\* gates(y, d, prop, s_hat, q); the one-hot matrix is kept in log
GatesCall ==
    /\ pc = "aggregate"
    /\ \E jitter \in Vectors(Len(args.s_hat), JitterVals) :
         LET agg == Gates(args.y, args.d, args.prop, args.s_hat, args.q, jitter)
         IN  /\ solver' = agg.wls
             /\ result' = agg.out
             /\ log' = <<[op |-> "gates", s_onehot |-> agg.s_onehot,
                          bin_indices |-> agg.grid.bin_indices]>>
    /\ pc' = "gates_returned"
    /\ UNCHANGED <<args, sample, fitted, pred_ctrl, pred_treat, err>>

NextAgg == BlpCall \/ GatesCall

SpecAgg == InitAgg /\ [][NextAgg]_vars

(* ============================ the properties ============================ *)

\* the k-th smallest member of a set of row numbers
Kth(S, k) == CHOOSE i \in S : Cardinality({j \in S : j < i}) = k - 1

\* v holds exactly the values of w on the rows S, in increasing row order
IsRestriction(v, w, S) ==
    /\ DOMAIN v = 1..Cardinality(S)
    /\ \A k \in 1..Cardinality(S) : v[k] = w[Kth(S, k)]

N == Len(args.d)
Treated == {i \in 1..N : args.d[i] = 1}
Control == {i \in 1..N : args.d[i] = 0}
MainRows == {i \in DOMAIN sample : sample[i] = "m"}
AuxRows == {i \in DOMAIN sample : sample[i] = "a"}
ProbMValid == 0 <= args.prob_m /\ args.prob_m <= ProbDen
IsFit(c) == c.op = "fit"
IsPredict(c) == c.op = "predict"
IsAggregator(c) == c.op \in {"blp", "gates"}
FitCalls == SelectSeq(log, IsFit)
PredictCalls == SelectSeq(log, IsPredict)
AggregatorCalls == SelectSeq(log, IsAggregator)
LogOps == [k \in DOMAIN log |-> log[k].op]
ProxyOps == <<"partition", "fit", "predict", "fit", "predict">>

\* c is floor(prob_m * size), prob_m being prob_m/ProbDen
IsFloorShare(c, size) ==
    /\ c * ProbDen <= args.prob_m * size
    /\ args.prob_m * size < (c + 1) * ProbDen

\* C1: for D in {0,1} and prob_m in [0,1], partition returns a label vector
\* of length n whose entries are all "m" or "a", with floor(prob_m * |treated|)
\* main rows among the treated and floor(prob_m * |control|) among the
\* controls, whichever subsets the random draws pick.
C1_PartitionCounts ==
    (pc # "combine" /\ ProbMValid) =>
        /\ err # "ValueError: np.random.choice"
        /\ DOMAIN sample = 1..N
        /\ \A i \in 1..N : sample[i] \in {"m", "a"}
        /\ MainRows \cup AuxRows = 1..N
        /\ MainRows \cap AuxRows = {}
        /\ IsFloorShare(Cardinality(MainRows \cap Treated), Cardinality(Treated))
        /\ IsFloorShare(Cardinality(MainRows \cap Control), Cardinality(Control))

\* a split with a share that is rounded down: prob_m strictly between 0
\* and 1, prob_m * |treated| not whole, main and auxiliary treated rows
C1_Witness ==
    /\ pc = "partitioned"
    /\ 0 < args.prob_m /\ args.prob_m < ProbDen
    /\ (args.prob_m * Cardinality(Treated)) % ProbDen # 0
    /\ MainRows \cap Treated # {}
    /\ AuxRows \cap Treated # {}
    /\ AuxRows \cap Control # {}

InvalidStage == args.second_stage \notin {"blp", "gates"}

\* C2 as stated: with second_stage outside {"blp", "gates"}, combine raises
\* and does no partitioning or fitting: partition, model.fit and
\* model.predict are never invoked on that call.
C2_NoWorkBeforeError ==
    (InvalidStage /\ pc = "raised" /\ err = "ValueError: second_stage") => log = <<>>

\* C2, what combine does instead: with second_stage outside {"blp", "gates"}
\* it calls no aggregator and no solver and returns no result, and its
\* invalid-argument error is raised only after partition and the two
\* fit/predict rounds of ml_proxy have run, in that order.
C2_RaisesAfterProxy ==
    InvalidStage =>
        /\ pc # "returned"
        /\ result = NoCall
        /\ solver = NoCall
        /\ AggregatorCalls = <<>>
        /\ (err = "ValueError: second_stage" => pc = "raised" /\ LogOps = ProxyOps)
        /\ (pc = "proxied" => LogOps = ProxyOps)

\* C2: the invalid-argument error raised after both fits ran on some rows
C2_LateError ==
    /\ InvalidStage
    /\ pc = "raised"
    /\ err = "ValueError: second_stage"
    /\ Len(FitCalls) = 2
    /\ FitCalls[1].rows # <<>>
    /\ FitCalls[2].rows # <<>>

\* C3: with prob_m = 1.0 and a D holding a treated and a control row,
\* combine ends in an error of its own: model.fit is never reached with an
\* empty training subset and no estimation result is returned.
C3_ProbOneRejected ==
    (args.prob_m = ProbDen /\ Treated # {} /\ Control # {}) =>
        /\ \A k \in DOMAIN log : log[k].op = "fit" => log[k].rows # <<>>
        /\ pc # "returned"
        /\ (pc = "raised" => err \in {"ValueError: np.random.choice", "ValueError: second_stage"})

\* C4: in ml_proxy the first fit gets exactly the auxiliary control rows
\* with target Y, the second exactly the auxiliary treated rows with target
\* Y minus the first prediction on those rows; no main row is passed to
\* fit; both predictions are made on all n rows, so b_hat and s_hat have
\* one value per observation.
C4_FitRows ==
    /\ Len(FitCalls) <= 2
    /\ Len(PredictCalls) <= 2
    /\ \A k \in DOMAIN FitCalls :
          LET rows == IF k = 1 THEN AuxRows \cap Control ELSE AuxRows \cap Treated
              c == FitCalls[k]
          IN  /\ IsRestriction(c.rows, [i \in 1..N |-> i], rows)
              /\ IsRestriction(c.features, args.x, rows)
              /\ \A j \in DOMAIN c.rows : sample[c.rows[j]] # "m"
              /\ k = 1 => IsRestriction(c.target, args.y, rows)
              /\ k = 2 => IsRestriction(c.target,
                               [i \in 1..N |-> args.y[i] - pred_ctrl[i]], rows)
    /\ \A k \in DOMAIN PredictCalls : PredictCalls[k].features = args.x
    /\ Len(PredictCalls) >= 1 => DOMAIN pred_ctrl = 1..N
    /\ Len(PredictCalls) >= 2 => DOMAIN pred_treat = 1..N
    /\ pc = "proxied" => LogOps = ProxyOps

\* both fits done on non-empty subsets, with main rows left out and a
\* first prediction that is not 0 on a treated auxiliary row
C4_Witness ==
    /\ pc = "proxied"
    /\ Len(FitCalls) = 2
    /\ FitCalls[1].rows # <<>>
    /\ FitCalls[2].rows # <<>>
    /\ MainRows \cap Control # {}
    /\ MainRows \cap Treated # {}
    /\ \E j \in DOMAIN FitCalls[2].rows : pred_ctrl[FitCalls[2].rows[j]] # 0

\* C5: for second_stage in {"blp", "gates"} combine calls partition, then
\* ml_proxy, then exactly one aggregator, the one asked for, and hands it
\* Y, D, P, s_hat (and b_hat for blp) restricted to exactly the main rows,
\* in the original order.
C5_MainRowsToAggregator ==
    /\ Len(AggregatorCalls) <= 1
    /\ (pc = "returned" => Len(AggregatorCalls) = 1)
    /\ \A k \in DOMAIN log :
          IsAggregator(log[k]) =>
              LET c == log[k]
              IN  /\ k = Len(log)
                  /\ [j \in 1..(k - 1) |-> LogOps[j]] = ProxyOps
                  /\ c.op = args.second_stage
                  /\ IsRestriction(c.y, args.y, MainRows)
                  /\ IsRestriction(c.d, args.d, MainRows)
                  /\ IsRestriction(c.prop, args.prop, MainRows)
                  /\ IsRestriction(c.s_hat, pred_treat, MainRows)
                  /\ c.op = "blp" => IsRestriction(c.b_hat, pred_ctrl, MainRows)

\* an aggregator called on two or more main rows that are not the first
\* rows of the data, with auxiliary rows in between left out
C5_Witness ==
    /\ pc = "returned"
    /\ Len(AggregatorCalls) = 1
    /\ Cardinality(MainRows) >= 2
    /\ \E i \in AuxRows : \E j \in MainRows : i < j
    /\ \E i \in MainRows : pred_treat[i] # 0

\* C8: partition rejects with an invalid-argument error, and returns no
\* labels, a D without treated rows, a D without control rows, and a prob_m
\* outside [0,1].
C8_PartitionRejects ==
    (pc # "combine" /\ (Treated = {} \/ Control = {} \/ ~ProbMValid)) =>
        /\ err = "ValueError: np.random.choice"
        /\ sample = <<>>

(* ------------------------- quantile_grid, gates, blp -------------------- *)

GridX == args.x
GridQ == args.q
GridScale == 100 * GridQ
GridMin == CHOOSE v \in Range(GridX) : \A i \in DOMAIN GridX : v <= GridX[i]
NoTies == \A i, j \in DOMAIN GridX : i # j => GridX[i] # GridX[j]
StrictlyIncreasing(e) == \A j \in DOMAIN e : \A k \in DOMAIN e : j < k => e[j] < e[k]

\* bin b (0-based) is the highest bin whose edge is <= the score v
IsHighestBin(b, v, edges) ==
    /\ 0 <= b /\ b < Len(edges)
    /\ edges[b + 1] <= v * GridScale
    /\ \A k \in (b + 2)..Len(edges) : edges[k] > v * GridScale

\* C6 as stated: for every finite score vector and q >= 1 each observation
\* gets the highest bin whose edge is <= its score, every index lies in
\* [0, q), and the minimum score is in bin 0.
C6_HighestBinMinInZero ==
    pc = "grid_returned" =>
        \A i \in DOMAIN GridX :
            /\ IsHighestBin(result.bin_indices[i], GridX[i], result.bin_edges)
            /\ result.bin_indices[i] \in 0..(GridQ - 1)
            /\ GridX[i] = GridMin => result.bin_indices[i] = 0

\* C6 as amended: for every finite score vector and q >= 1 each observation
\* gets the highest bin whose edge is <= its score and every index lies in
\* [0, q), so none is -1 or q; the minimum score is in the highest bin whose
\* edge equals it, which is bin 0 exactly when the second edge is above the
\* minimum (or q = 1).
C6_HighestBin ==
    pc = "grid_returned" =>
        /\ Len(result.bin_edges) = GridQ
        /\ DOMAIN result.bin_indices = DOMAIN GridX
        /\ \A i \in DOMAIN GridX :
              /\ IsHighestBin(result.bin_indices[i], GridX[i], result.bin_edges)
              /\ result.bin_indices[i] \in 0..(GridQ - 1)
              /\ GridX[i] = GridMin =>
                    /\ result.bin_edges[1] = GridMin * GridScale
                    /\ result.bin_indices[i] =
                          Cardinality({k \in 1..GridQ :
                              result.bin_edges[k] = GridMin * GridScale}) - 1

\* tied scores: the minimum score lands above bin 0 while a larger score
\* lands in the last bin
C6_Witness ==
    /\ pc = "grid_returned"
    /\ GridQ >= 3
    /\ \E i, j \in DOMAIN GridX :
          /\ GridX[i] = GridMin
          /\ result.bin_indices[i] = 1
          /\ GridX[j] > GridMin
          /\ result.bin_indices[j] = GridQ - 1

\* C7 as stated: for pairwise distinct scores of any length n >= 1 and
\* q >= 2 the q bin edges are strictly increasing.
C7_EdgesIncreasingAnyLength ==
    (pc = "grid_returned" /\ NoTies /\ GridQ >= 2) => StrictlyIncreasing(result.bin_edges)

\* C7 as amended: for pairwise distinct scores of length n >= 2 and q >= 2
\* the q bin edges are strictly increasing (a single score gives q equal
\* edges).
C7_EdgesIncreasing ==
    /\ (pc = "grid_returned" /\ NoTies /\ GridQ >= 2 /\ Len(GridX) >= 2) =>
          StrictlyIncreasing(result.bin_edges)
    /\ (pc = "grid_returned" /\ Len(GridX) = 1) =>
          \A k \in 1..GridQ : result.bin_edges[k] = GridX[1] * GridScale

\* distinct scores, more groups than scores in between: two edges are
\* interpolated between the same pair of neighbouring scores
C7_Witness ==
    /\ pc = "grid_returned"
    /\ NoTies
    /\ Len(GridX) = 2
    /\ GridQ = 3
    /\ StrictlyIncreasing(result.bin_edges)
    /\ result.bin_edges[2] % GridScale # 0

\* C9: the weighted least squares fit of blp and of gates applies, for
\* every row, the weight 1 / (P * (1 - P)) of that row's propensity: the
\* weights computed in the function are the weights the solver uses.
C9_WeightsApplied ==
    pc \in {"blp_returned", "gates_returned"} =>
        /\ DOMAIN solver.weights = DOMAIN args.prop
        /\ \A i \in DOMAIN args.prop :
              solver.weights[i][1] * args.prop[i] * (PropDen - args.prop[i])
                  = solver.weights[i][2] * PropDen * PropDen

\* C10: in gates, for n rows and q >= 1, the group-indicator matrix is
\* n x q with exactly one 1 per row, at the column of the row's bin; the
\* bin counts have length q and sum to n; the design matrix has 2q columns
\* and its coefficients are split into the first q and the last q.
C10_OneHotShape ==
    pc = "gates_returned" =>
        LET g == log[1].s_onehot
            n == Len(args.s_hat)
            q == args.q
        IN  /\ g.rows = n /\ g.cols = q
            /\ DOMAIN g.at = 1..n
            /\ \A i \in 1..n :
                  /\ DOMAIN g.at[i] = 1..q
                  /\ \A j \in 1..q : g.at[i][j] \in {0, 1}
                  /\ {j \in 1..q : g.at[i][j] = 1} = {log[1].bin_indices[i] + 1}
            /\ Len(result.bin_count) = q
            /\ \A j \in 1..q :
                  result.bin_count[j] = Cardinality({i \in 1..n : log[1].bin_indices[i] = j - 1})
            /\ SumSeq(result.bin_count) = n
            /\ solver.exog.rows = n /\ solver.exog.cols = 2 * q
            /\ Len(solver.params) = 2 * q
            /\ result.coef_baseline = [j \in 1..q |-> solver.params[j]]
            /\ result.coef_treatment = [j \in 1..q |-> solver.params[q + j]]
            /\ Len(result.bin_values) = q

\* several groups of which at least two hold rows, one of them holding two
C10_Witness ==
    /\ pc = "gates_returned"
    /\ args.q >= 2
    /\ \E j, k \in 1..args.q : j # k /\ result.bin_count[j] >= 2 /\ result.bin_count[k] >= 1

====
